---- MODULE Spec2Model ----
(***************************************************************************)
(* ArbitrageService (services/arbitrageService.ts): the arbitrage decision *)
(* loop and its session state machine, as it runs on the Node event loop.  *)
(*                                                                         *)
(* start()/stop()/timer callbacks are host tasks; every `await` of a venue *)
(* or payment call suspends a cycle, and the promise's settlement resumes  *)
(* it.  A cycle in flight is a suspended continuation: its position (pc),  *)
(* its locals, and the calls it has made so far on the injected            *)
(* collaborators (venues, buyer, logger), which is what the jest mocks of  *)
(* the test-suite record.                                                  *)
(***************************************************************************)
EXTENDS Integers, Sequences, FiniteSets, Bags, TLC

(***************************************************************************)
(* Bounds of the model.                                                    *)
(***************************************************************************)
\* cycles whose asynchronous chain may be pending at the same time
MaxInFlight == 2
\* repeating timers alive at the same time
MaxTimers == 2
\* a cycle is launched only while the trades counted plus the cycles in
\* flight stay below this
MaxTrades == 3
\* no new cycle is launched once buyContent was called this many times
MaxPayments == 2
\* the mock venues are asked about the amounts 0..MaxAmountIn (base units)
MaxAmountIn == 12
\* Math.random() is drawn from the grid k / RandomResolution, 0 <= k < RandomResolution
RandomResolution == 10
\* the container's factory is asked to build at most this many times
MaxBuilds == 3
\* Container.reset() is called at most this many times
MaxResets == 2
\* implementations a caller may hand to Container.override, per dependency
MaxImplementations == 2

(***************************************************************************)
(* Configuration (config.trading, config.tokens, config.x402), with the    *)
(* values the service tests inject.  A decimal configuration value is the  *)
(* pair mantissa / number of fraction digits: 0.5 is 5 with 1 digit.       *)
(***************************************************************************)
targetBalanceOut == 100
configAmountIn == 10
profitThresholdMantissa == 5
profitThresholdFractionDigits == 1
MAIN_TOKEN_DECIMALS == 6
SECONDARY_TOKEN_DECIMALS == 18
MAIN_TOKEN_SYMBOL == "USDC"
SECONDARY_TOKEN_SYMBOL == "WETH"
MAIN_TOKEN_ADDRESS == "0x1234567890123456789012345678901234567890"
SECONDARY_TOKEN_ADDRESS == "0x0987654321098765432109876543210987654321"
paymentUrl == "https://example.com/payment"

\* `undefined`: what a venue returns when it has no price / the swap failed
NONE == -1
\* outcome of an awaited call whose promise rejects
THROW == -2
\* a `const` local whose declaration was not reached
UNASSIGNED == -3

RECURSIVE Pow10(_)
Pow10(n) == IF n = 0 THEN 1 ELSE 10 * Pow10(n - 1)

(***************************************************************************)
(* Decimal numbers (the JS numbers the service computes with formatUnits)  *)
(* are exact decimals [m, e] = m * 10^-e in canonical form (no trailing    *)
(* zero fraction digit).  Binary floating-point rounding is not modelled.  *)
(***************************************************************************)
RECURSIVE Normalise(_)
Normalise(d) ==
    IF d.e > 0 /\ d.m % 10 = 0
    THEN Normalise([m |-> d.m \div 10, e |-> d.e - 1])
    ELSE d

Zero == [m |-> 0, e |-> 0]

\* viem parseUnits: decimal m * 10^-e -> integer base units at `decimals`
\* (fraction digits beyond `decimals` are rounded half up)
parseUnits(m, e, decimals) ==
    IF e <= decimals
    THEN m * Pow10(decimals - e)
    ELSE (m + 5 * Pow10(e - decimals - 1)) \div Pow10(e - decimals)

\* Number(formatUnits(value, decimals)): base units -> decimal number
formatUnitsNumber(value, decimals) == Normalise([m |-> value, e |-> decimals])

DecScale(a, b) == IF a.e >= b.e THEN a.e ELSE b.e
\* a + b on decimal numbers (sessionProfit += actualProfitUSDC)
DecAdd(a, b) ==
    LET s == DecScale(a, b)
    IN  Normalise([m |-> a.m * Pow10(s - a.e) + b.m * Pow10(s - b.e), e |-> s])
\* a >= b on decimal numbers
DecGeq(a, b) ==
    LET s == DecScale(a, b)
    IN  a.m * Pow10(s - a.e) >= b.m * Pow10(s - b.e)

balanceOut == parseUnits(targetBalanceOut, 0, MAIN_TOKEN_DECIMALS)
amountIn == parseUnits(configAmountIn, 0, MAIN_TOKEN_DECIMALS)
profitThresholdAmount ==
    parseUnits(profitThresholdMantissa, profitThresholdFractionDigits, MAIN_TOKEN_DECIMALS)

(***************************************************************************)
(* What the collaborators may answer.                                      *)
(***************************************************************************)
\* an amount of the secondary token (the service never scales it)
WethQuote == parseUnits(4, 3, MAIN_TOKEN_DECIMALS)
\* venue A's estimate: nothing, zero, a rejection, or a quote
EstimateAOutcomes == {NONE, 0, THROW, WethQuote}
\* venue B's estimate: one base unit below the threshold, exactly on it
EstimateBOutcomes ==
    {NONE, 0, THROW,
     amountIn + profitThresholdAmount - 1, amountIn + profitThresholdAmount}
\* venue A's swap: the amount actually received differs from the estimate
SwapAOutcomes == {NONE, 0, THROW, WethQuote - 1}
\* venue B's swap: a loss, half the target, the whole target
SwapBOutcomes ==
    {NONE, 0, THROW, amountIn - 1, amountIn + balanceOut \div 2, amountIn + balanceOut}
\* buyContent: content, the empty string, undefined, or a rejection
BuyOutcomes == {"content", "", "undefined", "throw"}

NoTimer == 0

VARIABLES
    txCount,        \* this.txCount
    sessionProfit,  \* this.sessionProfit (a decimal number)
    loop,           \* this.loop: the timer handle, NoTimer for undefined
    timers,         \* the repeating timers armed in the event loop
    cycles,         \* bag of the executeArbitrageCycle() calls in flight
    finished,       \* the cycle whose promise settled in the latest step
    buyerCalls,     \* the URLs buyer.buyContent was called with, in order
    trades,         \* history: bag of venue B's outputs, one per trade in
                    \* which both executeSwap calls returned a nonzero amount
    lastEstimatedPrice, \* MockUniswapProvider.lastEstimatedPrice
    invoked,        \* the latest call made on a mock venue or a utility
    returned,       \* what that call returned (THROW when it threw)
    dependencies,   \* Container.dependencies
    built,          \* how many times the factory has built the four instances
    resets          \* history: how many times Container.reset() was called

serviceVars == <<txCount, sessionProfit, loop, timers, cycles, finished, buyerCalls,
                 trades>>
containerVars == <<dependencies, built, resets>>
utilVars == <<lastEstimatedPrice, invoked, returned, dependencies, built, resets>>
vars == <<txCount, sessionProfit, loop, timers, cycles, finished, buyerCalls,
          trades, lastEstimatedPrice, invoked, returned, dependencies, built, resets>>

\* no call made yet on a mock venue or a utility
NoCall == [on |-> "none", op |-> "none", arg |-> NONE]

NoCycle ==
    [pc |-> "none", wethFromCDP |-> UNASSIGNED, usdcFromDEX |-> UNASSIGNED,
     actualWeth |-> UNASSIGNED, actualOutput |-> UNASSIGNED, log |-> <<>>]

InFlight == BagToSet(cycles)

Replace(c, d) == (cycles (-) SetToBag({c})) (+) SetToBag({d})
Remove(c) == cycles (-) SetToBag({c})

\* a truthiness test that forgets undefined (`=== 0n`)
Falsy_ZeroOnly(v) == v = 0

\* a test `=== undefined` in place of truthiness: 0n passes as a result
Falsy_NoneOnly(v) == v = NONE

\* JS truthiness of a bigint | undefined: undefined and 0n are falsy
Falsy(v) == v = NONE \/ v = 0

\* getStats().isRunning
isRunning == loop # NoTimer

\* getStats() with the meaning of isRunning inverted
getStats_RunningInverted ==
    [txCount |-> txCount, sessionProfit |-> sessionProfit, isRunning |-> ~isRunning]

\* getStats(), lines 226-233 (uptime reads the clock, which is not modelled)
getStats ==
    [txCount |-> txCount, sessionProfit |-> sessionProfit, isRunning |-> isRunning]

\* a promise job (the continuation of `await this.executeTrade(...)`) is
\* queued: it runs before any timer callback or host task
JobQueued == \E c \in InFlight : c.pc = "tradeReturned"

(***************************************************************************)
(* Calls a cycle makes on its collaborators, as <<name, arguments...>>.    *)
(***************************************************************************)
EstimatePriceCall(venue, amount, tokenIn, tokenOut) ==
    <<"estimatePrice", venue, amount, tokenIn, tokenOut>>
ExecuteSwapCall(venue, amount, tokenIn, tokenOut) ==
    <<"executeSwap", venue, amount, tokenIn, tokenOut>>
LogError(message) == <<"logError", message>>
LogTradeOpportunity(in, out, netProfit, executed, count, profit) ==
    <<"logTradeOpportunity", in, out, netProfit, executed, count, profit>>
BuyContentCall(url) == <<"buyContent", url>>

\* executeArbitrageCycle, lines 89-98: up to the first await
NewCycle ==
    [NoCycle EXCEPT
        !.pc = "awaitEstimateA",
        !.log = << <<"logPriceEstimation", "CDP">>,
                   EstimatePriceCall("cdp", amountIn, MAIN_TOKEN_ADDRESS,
                                     SECONDARY_TOKEN_ADDRESS) >>]

\* the comparison written with > instead of >=
shouldExecute_Strict(netProfit) == netProfit > profitThresholdAmount
\* the comparison made against zero instead of the threshold
shouldExecute_NonNegative(netProfit) == netProfit >= 0

\* line 128
shouldExecute(netProfit) == netProfit >= profitThresholdAmount

\* a target check that compares with zero instead of the configured target
targetReached_AnyProfit(profit) == DecGeq(profit, Zero)

\* line 149
targetReached(profit) ==
    DecGeq(profit, formatUnitsNumber(balanceOut, MAIN_TOKEN_DECIMALS))

\* clearInterval(handle): the timers left armed
clearInterval(handle, armed) == armed \ {handle}

\* setInterval: a handle no armed timer has
setInterval(armed) == CHOOSE h \in 1..(Cardinality(armed) + 1) : h \notin armed

\* the cycle's promise settles: it leaves the bag
Settle(c, d) ==
    /\ cycles' = Remove(c)
    /\ finished' = [d EXCEPT !.pc = "done"]
    /\ UNCHANGED utilVars

\* the cycle suspends at its next await
Suspend(c, d) ==
    /\ cycles' = Replace(c, d)
    /\ finished' = NoCycle
    /\ UNCHANGED utilVars

\* a start() that arms the timer and waits a full interval for the first cycle
Start_NoImmediateCycle ==
    /\ ~JobQueued
    /\ Cardinality(timers) < MaxTimers
    /\ loop' = setInterval(timers)
    /\ timers' = timers \cup {loop'}
    /\ finished' = NoCycle
    /\ UNCHANGED utilVars
    /\ UNCHANGED <<trades, txCount, sessionProfit, cycles, buyerCalls>>

\* a start() that begins a new session: the totals are reset
Start_ResetsCounters ==
    /\ ~JobQueued
    /\ BagCardinality(cycles) < MaxInFlight
    /\ Cardinality(timers) < MaxTimers
    /\ txCount + BagCardinality(cycles) < MaxTrades
    /\ Len(buyerCalls) < MaxPayments
    /\ cycles' = cycles (+) SetToBag({NewCycle})
    /\ loop' = setInterval(timers)
    /\ timers' = timers \cup {loop'}
    /\ finished' = NoCycle
    /\ UNCHANGED utilVars
    /\ txCount' = 0
    /\ sessionProfit' = Zero
    /\ UNCHANGED <<trades, buyerCalls>>

(***************************************************************************)
(* start(), lines 65-72                                                    *)
(***************************************************************************)
Start ==
    /\ ~JobQueued
    /\ BagCardinality(cycles) < MaxInFlight
    /\ Cardinality(timers) < MaxTimers
    /\ txCount + BagCardinality(cycles) < MaxTrades
    /\ Len(buyerCalls) < MaxPayments
    /\ cycles' = cycles (+) SetToBag({NewCycle})
    /\ loop' = setInterval(timers)
    /\ timers' = timers \cup {loop'}
    /\ finished' = NoCycle
    /\ UNCHANGED utilVars
    /\ UNCHANGED <<trades, txCount, sessionProfit, buyerCalls>>

\* a stop() that clears the timer but keeps its handle in this.loop
Stop_KeepsHandle ==
    /\ ~JobQueued
    /\ timers' = clearInterval(loop, timers)
    /\ finished' = NoCycle
    /\ UNCHANGED utilVars
    /\ UNCHANGED <<trades, txCount, sessionProfit, loop, cycles, buyerCalls>>

\* a stop() that also cancels the cycles in flight
Stop_CancelsCycles ==
    /\ ~JobQueued
    /\ IF loop # NoTimer
       THEN /\ timers' = clearInterval(loop, timers)
            /\ loop' = NoTimer
       ELSE UNCHANGED <<loop, timers>>
    /\ cycles' = EmptyBag
    /\ finished' = NoCycle
    /\ UNCHANGED utilVars
    /\ UNCHANGED <<trades, txCount, sessionProfit, buyerCalls>>

(***************************************************************************)
(* stop(), lines 77-83                                                     *)
(***************************************************************************)
Stop ==
    /\ ~JobQueued
    /\ IF loop # NoTimer
       THEN /\ timers' = clearInterval(loop, timers)
            /\ loop' = NoTimer
       ELSE UNCHANGED <<loop, timers>>
    /\ finished' = NoCycle
    /\ UNCHANGED utilVars
    /\ UNCHANGED <<trades, txCount, sessionProfit, cycles, buyerCalls>>

(***************************************************************************)
(* the setInterval callback, lines 69-71                                   *)
(***************************************************************************)
Tick ==
    /\ ~JobQueued
    /\ timers # {}
    /\ BagCardinality(cycles) < MaxInFlight
    /\ txCount + BagCardinality(cycles) < MaxTrades
    /\ Len(buyerCalls) < MaxPayments
    /\ cycles' = cycles (+) SetToBag({NewCycle})
    /\ finished' = NoCycle
    /\ UNCHANGED utilVars
    /\ UNCHANGED <<trades, txCount, sessionProfit, loop, timers, buyerCalls>>

\* the target is checked, and target-reached logged, before the opportunity report
ReportAndCheckTarget_CheckFirst(c, d) ==
    LET netProfit == d.usdcFromDEX - amountIn
        report == LogTradeOpportunity(amountIn, d.usdcFromDEX, netProfit,
                        shouldExecute(netProfit), txCount', sessionProfit')
    IN  IF targetReached(sessionProfit')
        THEN /\ buyerCalls' = Append(buyerCalls, paymentUrl)
             /\ Suspend(c, [d EXCEPT
                    !.pc = "awaitBuyContent",
                    !.log = @ \o << <<"logTargetReached">>,
                                    report,
                                    <<"logX402PaymentStart">>,
                                    BuyContentCall(paymentUrl) >>])
        ELSE /\ UNCHANGED buyerCalls
             /\ Settle(c, [d EXCEPT !.log = Append(@, report)])

\* an opportunity report that carries the amount the trade actually returned
ReportAndCheckTarget_ReportsActualOutput(c, d) ==
    LET amountOut == IF d.actualOutput \in {UNASSIGNED, NONE, 0}
                     THEN d.usdcFromDEX ELSE d.actualOutput
        netProfit == d.usdcFromDEX - amountIn
        reported == [d EXCEPT !.log = Append(@,
                        LogTradeOpportunity(amountIn, amountOut, amountOut - amountIn,
                            shouldExecute(netProfit), txCount', sessionProfit'))]
    IN  IF targetReached(sessionProfit')
        THEN /\ buyerCalls' = Append(buyerCalls, paymentUrl)
             /\ Suspend(c, [reported EXCEPT
                    !.pc = "awaitBuyContent",
                    !.log = @ \o << <<"logTargetReached">>,
                                    <<"logX402PaymentStart">>,
                                    BuyContentCall(paymentUrl) >>])
        ELSE /\ UNCHANGED buyerCalls
             /\ Settle(c, reported)

(***************************************************************************)
(* executeArbitrageCycle, lines 134-153: the opportunity report and the    *)
(* target check, up to the await of the payment                            *)
(***************************************************************************)
ReportAndCheckTarget(c, d) ==
    LET netProfit == d.usdcFromDEX - amountIn
        reported == [d EXCEPT !.log = Append(@,
                        LogTradeOpportunity(amountIn, d.usdcFromDEX, netProfit,
                            shouldExecute(netProfit), txCount', sessionProfit'))]
    IN  IF targetReached(sessionProfit')
        THEN /\ buyerCalls' = Append(buyerCalls, paymentUrl)
             /\ Suspend(c, [reported EXCEPT
                    !.pc = "awaitBuyContent",
                    !.log = @ \o << <<"logTargetReached">>,
                                    <<"logX402PaymentStart">>,
                                    BuyContentCall(paymentUrl) >>])
        ELSE /\ UNCHANGED buyerCalls
             /\ Settle(c, reported)

\* the catch of executeArbitrageCycle, lines 154-156
CycleCatch(c) ==
    Settle(c, [c EXCEPT !.log = Append(@, LogError("Error in arbitrage cycle"))])

\* a cycle that stops the scheduler when venue A gives no estimate
EstimateAReturn_StopOnFailure(c, r) ==
    /\ c.pc = "awaitEstimateA"
    /\ IF r = THROW \/ Falsy(r)
       THEN /\ timers' = clearInterval(loop, timers)
            /\ loop' = NoTimer
            /\ IF r = THROW
               THEN CycleCatch(c)
               ELSE Settle(c, [c EXCEPT !.wethFromCDP = r,
                    !.log = Append(@, LogError("Failed to get WETH price from CDP"))])
       ELSE /\ UNCHANGED <<loop, timers>>
            /\ Suspend(c, [c EXCEPT
                    !.pc = "awaitEstimateB",
                    !.wethFromCDP = r,
                    !.log = @ \o << <<"logPriceEstimation", "DEX">>,
                                    EstimatePriceCall("dex", r, SECONDARY_TOKEN_ADDRESS,
                                                      MAIN_TOKEN_ADDRESS) >>])
    /\ UNCHANGED <<trades, txCount, sessionProfit, buyerCalls>>

(***************************************************************************)
(* venue A's estimate settles, lines 94-111                                *)
(***************************************************************************)
EstimateAReturn(c, r) ==
    /\ c.pc = "awaitEstimateA"
    /\ IF r = THROW
       THEN CycleCatch(c)
       ELSE IF Falsy(r)
       THEN Settle(c, [c EXCEPT !.wethFromCDP = r,
                    !.log = Append(@, LogError("Failed to get WETH price from CDP"))])
       ELSE Suspend(c, [c EXCEPT
                    !.pc = "awaitEstimateB",
                    !.wethFromCDP = r,
                    !.log = @ \o << <<"logPriceEstimation", "DEX">>,
                                    EstimatePriceCall("dex", r, SECONDARY_TOKEN_ADDRESS,
                                                      MAIN_TOKEN_ADDRESS) >>])
    /\ UNCHANGED <<trades, txCount, sessionProfit, loop, timers, buyerCalls>>

\* executeTrade called before the estimate is tested and the profit compared
EstimateBReturn_TradeFirst(c, r) ==
    /\ c.pc = "awaitEstimateB"
    /\ UNCHANGED <<trades, txCount, sessionProfit, loop, timers, buyerCalls>>
    /\ IF r = THROW
       THEN CycleCatch(c)
       ELSE Suspend(c, [c EXCEPT
                    !.pc = "awaitSwapA",
                    !.usdcFromDEX = r,
                    !.log = @ \o << <<"logTradeExecution">>,
                                    ExecuteSwapCall("cdp", amountIn, MAIN_TOKEN_ADDRESS,
                                                    SECONDARY_TOKEN_ADDRESS) >>])

(***************************************************************************)
(* venue B's estimate settles, lines 107-153 and 168-175                   *)
(***************************************************************************)
EstimateBReturn(c, r) ==
    /\ c.pc = "awaitEstimateB"
    /\ UNCHANGED <<trades, txCount, sessionProfit, loop, timers>>
    /\ IF r = THROW
       THEN CycleCatch(c) /\ UNCHANGED buyerCalls
       ELSE IF Falsy(r)
       THEN /\ Settle(c, [c EXCEPT !.usdcFromDEX = r,
                    !.log = Append(@, LogError("Failed to get USDC price from DEX"))])
            /\ UNCHANGED buyerCalls
       ELSE IF shouldExecute(r - amountIn)
       THEN /\ Suspend(c, [c EXCEPT
                    !.pc = "awaitSwapA",
                    !.usdcFromDEX = r,
                    !.log = @ \o << <<"logTradeExecution">>,
                                    ExecuteSwapCall("cdp", amountIn, MAIN_TOKEN_ADDRESS,
                                                    SECONDARY_TOKEN_ADDRESS) >>])
            /\ UNCHANGED buyerCalls
       ELSE ReportAndCheckTarget(c, [c EXCEPT !.usdcFromDEX = r])

\* a trade that sends venue B the estimated amount instead of the amount received
SwapAReturn_SwapsTheEstimate(c, r) ==
    /\ c.pc = "awaitSwapA"
    /\ IF r = THROW
       THEN Suspend(c, [c EXCEPT !.pc = "tradeReturned",
                    !.log = Append(@, LogError("Error executing trade"))])
       ELSE IF Falsy(r)
       THEN Suspend(c, [c EXCEPT !.pc = "tradeReturned", !.actualWeth = r,
                    !.log = Append(@, LogError("First swap failed"))])
       ELSE Suspend(c, [c EXCEPT !.pc = "awaitSwapB", !.actualWeth = r,
                    !.log = Append(@, ExecuteSwapCall("dex", c.wethFromCDP,
                                        SECONDARY_TOKEN_ADDRESS, MAIN_TOKEN_ADDRESS))])
    /\ UNCHANGED <<trades, txCount, sessionProfit, loop, timers, buyerCalls>>

(***************************************************************************)
(* executeTrade: venue A's swap settles, lines 171-186 and 200-202         *)
(***************************************************************************)
SwapAReturn(c, r) ==
    /\ c.pc = "awaitSwapA"
    /\ IF r = THROW
       THEN Suspend(c, [c EXCEPT !.pc = "tradeReturned",
                    !.log = Append(@, LogError("Error executing trade"))])
       ELSE IF Falsy(r)
       THEN Suspend(c, [c EXCEPT !.pc = "tradeReturned", !.actualWeth = r,
                    !.log = Append(@, LogError("First swap failed"))])
       ELSE Suspend(c, [c EXCEPT !.pc = "awaitSwapB", !.actualWeth = r,
                    !.log = Append(@, ExecuteSwapCall("dex", r, SECONDARY_TOKEN_ADDRESS,
                                                      MAIN_TOKEN_ADDRESS))])
    /\ UNCHANGED <<trades, txCount, sessionProfit, loop, timers, buyerCalls>>

\* an executeSwap call returned an amount other than 0n (it neither threw
\* nor returned undefined)
nonzeroAmount(v) == v \in Nat \ {0}

\* the trade is accounted without this.txCount++
countAfterTrade_NoIncrement(count) == count

\* lines 193-197: the session counters after a trade whose output is r
profitAfterTrade(profit, r) ==
    DecAdd(profit, formatUnitsNumber(r - amountIn, MAIN_TOKEN_DECIMALS))
countAfterTrade(count) == count + 1

(***************************************************************************)
(* executeTrade: venue B's swap settles, lines 182-202                     *)
(***************************************************************************)
SwapBReturn(c, r) ==
    /\ c.pc = "awaitSwapB"
    /\ IF r = THROW
       THEN /\ Suspend(c, [c EXCEPT !.pc = "tradeReturned",
                    !.log = Append(@, LogError("Error executing trade"))])
            /\ UNCHANGED <<txCount, sessionProfit>>
       ELSE IF Falsy(r)
       THEN /\ Suspend(c, [c EXCEPT !.pc = "tradeReturned", !.actualOutput = r,
                    !.log = Append(@, LogError("Second swap failed"))])
            /\ UNCHANGED <<txCount, sessionProfit>>
       ELSE /\ sessionProfit' = profitAfterTrade(sessionProfit, r)
            /\ txCount' = countAfterTrade(txCount)
            /\ Suspend(c, [c EXCEPT !.pc = "tradeReturned", !.actualOutput = r,
                    !.log = Append(@, <<"logTradeSuccess",
                        formatUnitsNumber(r - amountIn, MAIN_TOKEN_DECIMALS)>>)])
    /\ trades' = IF nonzeroAmount(c.actualWeth) /\ nonzeroAmount(r)
                 THEN trades (+) SetToBag({r})
                 ELSE trades
    /\ UNCHANGED <<loop, timers, buyerCalls>>

(***************************************************************************)
(* the cycle resumes after `await this.executeTrade(...)`, lines 131-153   *)
(***************************************************************************)
TradeReturn(c) ==
    /\ c.pc = "tradeReturned"
    /\ UNCHANGED <<trades, txCount, sessionProfit, loop, timers>>
    /\ ReportAndCheckTarget(c, c)

\* executeX402Payment, lines 213-220: what is logged for a payment outcome
paymentReport(r) ==
    IF r = "throw" THEN LogError("Failed to execute x402 payment")
    ELSE IF r \in {"", "undefined"}
    THEN <<"logX402PaymentWarning", "Payment completed but no content received">>
    ELSE <<"logX402PaymentSuccess", r>>

\* this.stop() reached only when the payment does not raise
BuyContentReturn_StopInsideTry(c, r) ==
    /\ c.pc = "awaitBuyContent"
    /\ IF loop # NoTimer /\ r # "throw"
       THEN /\ timers' = clearInterval(loop, timers)
            /\ loop' = NoTimer
       ELSE UNCHANGED <<loop, timers>>
    /\ Settle(c, [c EXCEPT !.log = Append(@, paymentReport(r))])
    /\ UNCHANGED <<trades, txCount, sessionProfit, buyerCalls>>

\* a target-reached handling that pays but never calls this.stop()
BuyContentReturn_NoStop(c, r) ==
    /\ c.pc = "awaitBuyContent"
    /\ Settle(c, [c EXCEPT !.log = Append(@, paymentReport(r))])
    /\ UNCHANGED <<trades, txCount, sessionProfit, loop, timers, buyerCalls>>

(***************************************************************************)
(* buyContent settles, lines 211-221, and the cycle goes on to this.stop() *)
(* (line 152).  The continuation after `await this.executeX402Payment()`   *)
(* is a promise job queued at once: no timer callback or host call runs    *)
(* before it, and no other cycle reads or writes this.loop, so the two     *)
(* segments are one step.                                                  *)
(***************************************************************************)
BuyContentReturn(c, r) ==
    /\ c.pc = "awaitBuyContent"
    /\ IF loop # NoTimer
       THEN /\ timers' = clearInterval(loop, timers)
            /\ loop' = NoTimer
       ELSE UNCHANGED <<loop, timers>>
    /\ Settle(c, [c EXCEPT !.log = @ \o <<paymentReport(r), <<"stop">> >>])
    /\ UNCHANGED <<trades, txCount, sessionProfit, buyerCalls>>

\* the keys of AppDependencies, lines 31-36
Keys == {"cdpProvider", "customDEXProvider", "buyer", "wallet"}

\* `private dependencies: AppDependencies | null = null`, line 95: null is
\* the record that holds no instance
NoInstance == [by |-> "none", key |-> "none", id |-> 0]
NoDependencies == [k \in Keys |-> NoInstance]

Init ==
    /\ txCount = 0
    /\ sessionProfit = Zero
    /\ loop = NoTimer
    /\ timers = {}
    /\ cycles = EmptyBag
    /\ finished = NoCycle
    /\ buyerCalls = <<>>
    /\ trades = EmptyBag
    /\ lastEstimatedPrice = NONE
    /\ invoked = NoCall
    /\ returned = NONE
    /\ dependencies = NoDependencies
    /\ built = 0
    /\ resets = 0

\* the settlements the event loop may deliver to the cycles in flight
EstimateASettles == \E c \in InFlight, r \in EstimateAOutcomes : EstimateAReturn(c, r)
EstimateBSettles == \E c \in InFlight, r \in EstimateBOutcomes : EstimateBReturn(c, r)
SwapASettles == \E c \in InFlight, r \in SwapAOutcomes : SwapAReturn(c, r)
SwapBSettles == \E c \in InFlight, r \in SwapBOutcomes : SwapBReturn(c, r)
TradeResumes == \E c \in InFlight : TradeReturn(c)
BuyContentSettles == \E c \in InFlight, r \in BuyOutcomes : BuyContentReturn(c, r)

Next ==
    \/ Start
    \/ Stop
    \/ Tick
    \/ EstimateASettles
    \/ EstimateBSettles
    \/ SwapASettles
    \/ SwapBSettles
    \/ TradeResumes
    \/ BuyContentSettles

Spec == Init /\ [][Next]_vars

(***************************************************************************)
(* Vocabulary of the properties.                                           *)
(***************************************************************************)
\* the cycles one can look at: those in flight and the one that just ended
Observed == InFlight \cup (IF finished.pc = "done" THEN {finished} ELSE {})

\* after a step: the record of the cycle that was launched or resumed in it
SteppedTo ==
    {d \in BagToSet(cycles') : CopiesIn(d, cycles') > CopiesIn(d, cycles)}
        \cup (IF finished'.pc = "done" THEN {finished'} ELSE {})

\* positions in a cycle's log of the calls of a name / on a venue
CallsOf(c, name) == {i \in DOMAIN c.log : c.log[i][1] = name}
VenueCalls(c, name, venue) ==
    {i \in DOMAIN c.log : c.log[i][1] = name /\ c.log[i][2] = venue}
SwapCalls(c) == CallsOf(c, "executeSwap")

\* a decimal number in base units of the main token
BaseUnits(d) == d.m * Pow10(MAIN_TOKEN_DECIMALS - d.e)

\* the cycle got a usable estimate from both venues
Estimated(c) == c.usdcFromDEX # UNASSIGNED /\ ~(c.usdcFromDEX \in {NONE, 0})
EstimatedNetProfit(c) == c.usdcFromDEX - amountIn

(***************************************************************************)
(* C1: when a cycle ends after finding the cumulative session profit at or *)
(* above the target, buyContent has been invoked exactly once, with the    *)
(* configured payment URL, and isRunning is false.                         *)
(***************************************************************************)
C1_TargetReachedPaysOnceAndHalts ==
    (finished.pc = "done" /\ CallsOf(finished, "logTargetReached") # {})
        => /\ buyerCalls = <<paymentUrl>>
           /\ ~isRunning

(***************************************************************************)
(* C2: over the lifetime of the service buyContent is invoked at most      *)
(* once.                                                                   *)
(***************************************************************************)
C2_BuyContentAtMostOnce == Len(buyerCalls) <= 1

(***************************************************************************)
(* C3: a step changes the session counters only when venue B's swap        *)
(* returns a value to a cycle, and then it adds exactly 1 to txCount and   *)
(* exactly (actualOutput - amountIn) base units to sessionProfit; every    *)
(* other step leaves both unchanged.                                       *)
(***************************************************************************)
TradeCompleted(d) ==
    /\ d \in SteppedTo
    /\ d.pc = "tradeReturned"
    /\ d.actualOutput # UNASSIGNED
    /\ ~(d.actualOutput \in {NONE, 0})

C3_CountersMoveTogether ==
    [][IF \E d \in BagToSet(cycles') : TradeCompleted(d)
       THEN \E d \in BagToSet(cycles') :
                /\ TradeCompleted(d)
                /\ txCount' = txCount + 1
                /\ BaseUnits(sessionProfit') - BaseUnits(sessionProfit)
                        = d.actualOutput - amountIn
       ELSE UNCHANGED <<txCount, sessionProfit>>]_vars

C3_Witness ==
    \E c \in InFlight :
        /\ c.pc = "tradeReturned"
        /\ c.actualOutput = amountIn + balanceOut \div 2
        /\ txCount = 1
        /\ sessionProfit = [m |-> 50, e |-> 0]

(***************************************************************************)
(* C4: a cycle with both estimates executes the trade (calls venue A's     *)
(* executeSwap) exactly when its estimated net profit, in base units, is   *)
(* >= the threshold: on the threshold it does, one unit below it does not. *)
(***************************************************************************)
C4_ThresholdBoundary ==
    \A c \in Observed :
        Estimated(c) =>
            (VenueCalls(c, "executeSwap", "cdp") # {}
                <=> EstimatedNetProfit(c) >= profitThresholdAmount)

C4_Witness ==
    \E c \in Observed :
        /\ EstimatedNetProfit(c) = 500000
        /\ VenueCalls(c, "executeSwap", "cdp") # {}

(***************************************************************************)
(* C5: a cycle whose estimated net profit is below the threshold never     *)
(* calls executeSwap on either venue, and no step of it changes txCount or *)
(* sessionProfit.                                                          *)
(***************************************************************************)
BelowThreshold(c) == Estimated(c) /\ EstimatedNetProfit(c) < profitThresholdAmount

C5_NoTradeBelowThreshold ==
    [][\A d \in SteppedTo :
            BelowThreshold(d) =>
                /\ SwapCalls(d) = {}
                /\ d.actualWeth = UNASSIGNED /\ d.actualOutput = UNASSIGNED
                /\ UNCHANGED <<txCount, sessionProfit>>]_vars

C5_Witness ==
    /\ finished.pc = "done"
    /\ EstimatedNetProfit(finished) = profitThresholdAmount - 1
    /\ CallsOf(finished, "logTradeOpportunity") # {}

(***************************************************************************)
(* C6: when venue A's estimatePrice returns NONE the cycle ends at once:   *)
(* venue B's estimatePrice is not invoked, nor any executeSwap, nor the    *)
(* opportunity report; nothing of the service changes; one error is        *)
(* reported.                                                               *)
(***************************************************************************)
C6_ShortCircuitOnFirstEstimate ==
    [][\A d \in SteppedTo :
            d.wethFromCDP = NONE =>
                /\ d.pc = "done"
                /\ VenueCalls(d, "estimatePrice", "dex") = {}
                /\ SwapCalls(d) = {}
                /\ CallsOf(d, "logTradeOpportunity") = {}
                /\ CallsOf(d, "buyContent") = {}
                /\ Cardinality(CallsOf(d, "logError")) = 1
                /\ UNCHANGED <<txCount, sessionProfit, loop, timers, buyerCalls>>]_vars

C6_Witness ==
    /\ finished.pc = "done"
    /\ finished.wethFromCDP = NONE
    /\ VenueCalls(finished, "estimatePrice", "cdp") # {}

(***************************************************************************)
(* C7: when venue A's estimate succeeds and venue B's estimatePrice        *)
(* returns NONE, the cycle invokes executeSwap on neither venue.           *)
(***************************************************************************)
C7_ShortCircuitOnSecondEstimate ==
    \A c \in Observed :
        (~Falsy(c.wethFromCDP) /\ c.usdcFromDEX = NONE) =>
            /\ c.pc = "done"
            /\ SwapCalls(c) = {}

C7_Witness ==
    /\ finished.pc = "done"
    /\ finished.wethFromCDP = WethQuote
    /\ finished.usdcFromDEX = NONE
    /\ VenueCalls(finished, "estimatePrice", "dex") # {}

(***************************************************************************)
(* C8: when venue A's executeSwap returns NONE, the cycle never invokes    *)
(* venue B's executeSwap, and no step of the cycle changes txCount or      *)
(* sessionProfit.                                                          *)
(***************************************************************************)
C8_ExecutionShortCircuit ==
    [][\A d \in SteppedTo :
            d.actualWeth = NONE =>
                /\ VenueCalls(d, "executeSwap", "dex") = {}
                /\ d.actualOutput = UNASSIGNED
                /\ CallsOf(d, "logTradeSuccess") = {}
                /\ UNCHANGED <<txCount, sessionProfit>>]_vars

C8_Witness ==
    /\ finished.pc = "done"
    /\ finished.actualWeth = NONE
    /\ VenueCalls(finished, "executeSwap", "cdp") # {}
    /\ CallsOf(finished, "logTradeOpportunity") # {}

(***************************************************************************)
(* C9: at most one arbitrage cycle is in flight at any time: a timer tick  *)
(* (a step that launches a cycle and leaves the timers alone) happens only *)
(* when no earlier cycle is still pending.                                 *)
(***************************************************************************)
C9_NoTickWhileCyclePending ==
    [][(BagCardinality(cycles') > BagCardinality(cycles) /\ UNCHANGED <<loop, timers>>)
            => cycles = EmptyBag]_vars

(***************************************************************************)
(* C10: exactly one repeating timer is armed while the service is Running, *)
(* and none when it is not.                                                *)
(***************************************************************************)
C10_OneTimerWhileRunning ==
    IF isRunning THEN Cardinality(timers) = 1 ELSE timers = {}

(***************************************************************************)
(* C11. isRunning is true exactly when an active repeating timer exists    *)
(* (armed and not cancelled).  Violated: start() overwrites the handle of  *)
(* a timer that stays armed, and stop() clears only the last handle.       *)
(***************************************************************************)
C11_RunningIffTimerArmed ==
    isRunning <=> timers # {}

(***************************************************************************)
(* C12 as stated: sessionProfit only increases, and every amount added to  *)
(* it is at least the configured profit threshold.  Violated: the amount   *)
(* added is the realized one, and venue B may return less than it quoted.  *)
(***************************************************************************)
C12_SessionProfitOnlyIncreases ==
    [][sessionProfit' # sessionProfit
        => BaseUnits(sessionProfit') - BaseUnits(sessionProfit)
                >= profitThresholdAmount]_vars

(***************************************************************************)
(* C12 amended: sessionProfit changes only by a completed trade of a cycle *)
(* whose ESTIMATED net profit was at least the threshold; the amount added *)
(* is the realized (actualOutput - amountIn), so sessionProfit decreases    *)
(* exactly when the trade's actual output is below amountIn.               *)
(***************************************************************************)
C12_AddsRealizedProfitOfQualifiedTrade ==
    [][sessionProfit' # sessionProfit
        => \E d \in BagToSet(cycles') :
              /\ TradeCompleted(d)
              /\ Estimated(d)
              /\ EstimatedNetProfit(d) >= profitThresholdAmount
              /\ BaseUnits(sessionProfit') - BaseUnits(sessionProfit)
                    = d.actualOutput - amountIn
              /\ (~DecGeq(sessionProfit', sessionProfit)
                    <=> d.actualOutput < amountIn)]_vars

C12_Witness ==
    /\ BaseUnits(sessionProfit) < 0
    /\ \E c \in InFlight :
          /\ c.pc = "tradeReturned"
          /\ c.actualOutput = amountIn - 1
          /\ EstimatedNetProfit(c) >= profitThresholdAmount

(***************************************************************************)
(* C13. txCount starts at 0; a step either leaves it unchanged or adds     *)
(* exactly 1, and it adds 1 only when the second swap of a cycle returns a *)
(* value after the first swap of that cycle returned a value too.          *)
(***************************************************************************)
C13_TxCountCountsCompletedTrades ==
    /\ txCount = 0
    /\ [][\/ txCount' = txCount
          \/ /\ txCount' = txCount + 1
             /\ \E d \in BagToSet(cycles') :
                   /\ TradeCompleted(d)
                   /\ d.actualWeth # UNASSIGNED
                   /\ ~(d.actualWeth \in {NONE, 0, THROW})
                   /\ ~(d.actualOutput \in {NONE, 0, THROW})
                   /\ Cardinality(VenueCalls(d, "executeSwap", "cdp")) = 1
                   /\ Cardinality(VenueCalls(d, "executeSwap", "dex")) = 1]_vars

C13_Witness ==
    /\ txCount = 2
    /\ \E c \in InFlight :
          /\ c.pc = "tradeReturned"
          /\ c.actualWeth = WethQuote - 1
          /\ c.actualOutput = amountIn - 1

(***************************************************************************)
(* C14. A cycle in which either estimatePrice returned NONE or raised ends *)
(* at once: the step that ends it leaves txCount, sessionProfit, the timer *)
(* and the payments unchanged, the cycle has called neither executeSwap    *)
(* nor buyContent, and it has reported exactly one error.                  *)
(***************************************************************************)
\* of an ended cycle: an estimate was never assigned (raised) or was NONE
EstimateFailed(d) ==
    \/ d.wethFromCDP \in {NONE, UNASSIGNED}
    \/ d.usdcFromDEX \in {NONE, UNASSIGNED}

C14_EstimateFailureEndsCycleHarmlessly ==
    [][(finished'.pc = "done" /\ EstimateFailed(finished'))
        => /\ UNCHANGED <<txCount, sessionProfit, loop, timers, buyerCalls>>
           /\ SwapCalls(finished') = {}
           /\ CallsOf(finished', "buyContent") = {}
           /\ Cardinality(CallsOf(finished', "logError")) = 1]_vars

C14_Witness ==
    /\ finished.pc = "done"
    /\ finished.wethFromCDP = WethQuote
    /\ finished.usdcFromDEX = UNASSIGNED
    /\ txCount >= 1
    /\ isRunning

(***************************************************************************)
(* C15. Once a cycle has entered target-reached handling, the step in      *)
(* which its payment settles stops the scheduler whatever the outcome      *)
(* (content, empty, no content, or a raised error): afterwards isRunning   *)
(* is false and the timer this.loop referred to is no longer armed.        *)
(***************************************************************************)
C15_TargetReachedStopsWhateverThePayment ==
    [][\A c \in InFlight :
          (c.pc = "awaitBuyContent" /\ CopiesIn(c, cycles') < CopiesIn(c, cycles))
            => /\ ~isRunning'
               /\ loop \notin timers'
               /\ finished'.pc = "done"
               /\ CallsOf(finished', "stop") # {}]_vars

C15_Witness ==
    /\ finished.pc = "done"
    /\ \E i \in CallsOf(finished, "logError") :
          finished.log[i][2] = "Failed to execute x402 payment"
    /\ CallsOf(finished, "stop") # {}
    /\ ~isRunning

(***************************************************************************)
(* C16. start() on an idle service launches exactly one cycle at once,     *)
(* which has already asked venue A for its estimate, and arms a fresh      *)
(* repeating timer: getStats().isRunning is true when start() returns.     *)
(* stop() on a running service makes getStats().isRunning false.           *)
(***************************************************************************)
C16_StartRunsOneCycleAndArms ==
    [][/\ (Start /\ ~getStats.isRunning)
            => /\ cycles' = cycles (+) SetToBag({NewCycle})
               /\ NewCycle.pc = "awaitEstimateA"
               /\ VenueCalls(NewCycle, "estimatePrice", "cdp") # {}
               /\ getStats'.isRunning
               /\ loop' \in timers' \ timers
       /\ (Stop /\ getStats.isRunning) => ~getStats'.isRunning]_vars

C16_Witness ==
    /\ getStats.isRunning
    /\ timers = {loop}
    /\ cycles = SetToBag({NewCycle})
    /\ txCount = 0

(***************************************************************************)
(* C17. After stop() has returned and until start() is called again        *)
(* (this.loop is undefined in between), no timer tick starts a cycle.      *)
(* Violated: stop() clears only the last handle, so a timer armed by an    *)
(* earlier start() and overwritten by a later one keeps ticking.           *)
(***************************************************************************)
C17_NoTickAfterStop ==
    [][Tick => loop # NoTimer]_vars

(***************************************************************************)
(* C18. stop() is idempotent: it can be called whenever the host gets to   *)
(* run, it leaves isRunning false after every call, and a call on a        *)
(* service that is already stopped (or was never started) changes no       *)
(* field of the service, no timer and no cycle.                            *)
(***************************************************************************)
C18_StopIdempotent ==
    /\ [](~JobQueued => ENABLED Stop)
    /\ [][Stop => /\ ~isRunning'
                  /\ ~isRunning =>
                        UNCHANGED <<txCount, sessionProfit, loop, timers,
                                    cycles, buyerCalls>>]_vars

C18_Witness ==
    /\ ~isRunning
    /\ ~JobQueued
    /\ timers = {}
    /\ cycles # EmptyBag
    /\ buyerCalls = <<>>

(***************************************************************************)
(* C19. start() and stop() leave txCount, sessionProfit and the payments   *)
(* made as they were, whatever their values: stop() touches only the timer *)
(* and start() only the timer and the bag of cycles, to which it adds the  *)
(* one cycle it launches.                                                  *)
(***************************************************************************)
C19_RestartKeepsSessionTotals ==
    [][/\ (Start \/ Stop) => /\ getStats'.txCount = getStats.txCount
                             /\ getStats'.sessionProfit = getStats.sessionProfit
                             /\ UNCHANGED buyerCalls
       /\ Stop => UNCHANGED cycles
       /\ Start => cycles' = cycles (+) SetToBag({NewCycle})]_vars

\* a service restarted after target-reached handling stopped it
C19_Witness ==
    /\ isRunning
    /\ timers = {loop}
    /\ cycles = SetToBag({NewCycle})
    /\ Len(buyerCalls) = 1
    /\ txCount >= 1
    /\ targetReached(sessionProfit)

(***************************************************************************)
(* C20. getStats() answers in every state.  On the freshly constructed     *)
(* service it returns txCount 0, sessionProfit 0 and isRunning false; in   *)
(* the state in which a cycle's target-reached handling has completed it   *)
(* returns isRunning false and the session's counters, which count at      *)
(* least the one trade that made the target.                               *)
(***************************************************************************)
C20_GetStatsFreshAndAfterTarget ==
    /\ getStats = [txCount |-> 0, sessionProfit |-> Zero, isRunning |-> FALSE]
    /\ [](/\ getStats.txCount \in Nat
          /\ getStats.sessionProfit = Normalise(getStats.sessionProfit)
          /\ getStats.isRunning \in BOOLEAN
          /\ (finished.pc = "done" /\ CallsOf(finished, "logTargetReached") # {})
                => /\ ~getStats.isRunning
                   /\ getStats.txCount >= 1
                   /\ getStats.txCount = txCount
                   /\ getStats.sessionProfit = sessionProfit)

C20_Witness ==
    /\ finished.pc = "done"
    /\ CallsOf(finished, "logTargetReached") # {}
    /\ CallsOf(finished, "logX402PaymentSuccess") # {}
    /\ getStats.txCount = 2
    /\ targetReached(getStats.sessionProfit)
    /\ ~getStats.isRunning

(***************************************************************************)
(* C21. Every cycle that has ended produced exactly one of an opportunity  *)
(* report and an error report: not both and not neither.  Violated: a      *)
(* trade that fails reports its error inside executeTrade, which returns   *)
(* normally, and the cycle goes on to report the opportunity.              *)
(***************************************************************************)
C21_OneReportPerCycle ==
    finished.pc = "done"
        => (CallsOf(finished, "logTradeOpportunity") # {})
              # (CallsOf(finished, "logError") # {})

(***************************************************************************)
(* The profitable session: start() is called once on the fresh service and *)
(* stop() is never called from outside; every venue and payment call       *)
(* returns; every estimate meets the threshold and every trade realizes a  *)
(* profit.  Timer callbacks and settled promises are eventually run by the *)
(* event loop (weak fairness).                                             *)
(***************************************************************************)
ProfitableEstimateB == amountIn + profitThresholdAmount
ProfitableSwapBOutcomes == {amountIn + balanceOut \div 2, amountIn + balanceOut}
ReturningBuyOutcomes == BuyOutcomes \ {"throw"}

StartOnce ==
    /\ ~isRunning
    /\ cycles = EmptyBag
    /\ buyerCalls = <<>>
    /\ Start
ProfitableEstimateASettles == \E c \in InFlight : EstimateAReturn(c, WethQuote)
ProfitableEstimateBSettles == \E c \in InFlight : EstimateBReturn(c, ProfitableEstimateB)
ProfitableSwapASettles == \E c \in InFlight : SwapAReturn(c, WethQuote - 1)
ProfitableSwapBSettles ==
    \E c \in InFlight, r \in ProfitableSwapBOutcomes : SwapBReturn(c, r)
ReturningBuyContentSettles ==
    \E c \in InFlight, r \in ReturningBuyOutcomes : BuyContentReturn(c, r)

ProfitableNext ==
    \/ StartOnce
    \/ Tick
    \/ ProfitableEstimateASettles
    \/ ProfitableEstimateBSettles
    \/ ProfitableSwapASettles
    \/ ProfitableSwapBSettles
    \/ TradeResumes
    \/ ReturningBuyContentSettles

ProfitableSpec ==
    /\ Init
    /\ [][ProfitableNext]_vars
    /\ WF_vars(Tick)
    /\ WF_vars(ProfitableEstimateASettles)
    /\ WF_vars(ProfitableEstimateBSettles)
    /\ WF_vars(ProfitableSwapASettles)
    /\ WF_vars(ProfitableSwapBSettles)
    /\ WF_vars(TradeResumes)
    /\ WF_vars(ReturningBuyContentSettles)

(***************************************************************************)
(* C22. In the profitable session, once the service is running the         *)
(* cumulative profit eventually reaches the target, buyContent has been    *)
(* invoked, and the service is idle (isRunning false) from then on.        *)
(***************************************************************************)
TargetMetPaidAndIdle ==
    /\ ~isRunning
    /\ targetReached(sessionProfit)
    /\ buyerCalls # <<>>

C22_ProfitableSessionEndsIdle == isRunning ~> []TargetMetPaidAndIdle

C22_Witness ==
    /\ ~isRunning
    /\ timers = {}
    /\ cycles = EmptyBag
    /\ targetReached(sessionProfit)
    /\ txCount = 2
    /\ buyerCalls = <<paymentUrl>>

(***************************************************************************)
(* The mock venues, src/mocks/mockCDPProvider.ts and                       *)
(* src/mocks/mockUniswapProvider.ts, and the utilities, called directly on *)
(* a service that stays as constructed.                                    *)
(***************************************************************************)
AmountIns == 0..MaxAmountIn
RandomDraws == 0..(RandomResolution - 1)

\* 1.01 + Math.random() * 0.04, as a fraction, for Math.random() = k / RandomResolution
randomFactorNumerator(k) == 101 * RandomResolution + 4 * k
randomFactorDenominator == 100 * RandomResolution

\* Math.round of the fraction num / den: the nearest integer, halves upwards
MathRound(num, den) == (2 * num + den) \div (2 * den)

\* BigInt(Math.round(Number(amountIn) * randomFactor))
estimatedPrice(amount, k) ==
    MathRound(amount * randomFactorNumerator(k), randomFactorDenominator)

Call(on, op, arg) == [on |-> on, op |-> op, arg |-> arg]

\* MockCDPProvider.estimatePrice, lines 28-38
MockCDPEstimatePrice ==
    \E a \in AmountIns, k \in RandomDraws :
        /\ invoked' = Call("MockCDP", "estimatePrice", a)
        /\ returned' = estimatedPrice(a, k)
        /\ UNCHANGED lastEstimatedPrice
        /\ UNCHANGED <<serviceVars, containerVars>>

\* MockCDPProvider.executeSwap, lines 48-51: it asks estimatePrice again
MockCDPExecuteSwap ==
    \E a \in AmountIns, k \in RandomDraws :
        /\ invoked' = Call("MockCDP", "executeSwap", a)
        /\ returned' = estimatedPrice(a, k)
        /\ UNCHANGED lastEstimatedPrice
        /\ UNCHANGED <<serviceVars, containerVars>>

\* MockUniswapProvider.estimatePrice, lines 8-17
MockUniswapEstimatePrice ==
    \E a \in AmountIns, k \in RandomDraws :
        /\ invoked' = Call("MockUniswap", "estimatePrice", a)
        /\ lastEstimatedPrice' = estimatedPrice(a, k)
        /\ returned' = lastEstimatedPrice'
        /\ UNCHANGED <<serviceVars, containerVars>>

\* MockUniswapProvider.executeSwap, lines 19-28
MockUniswapExecuteSwap ==
    \E a \in AmountIns, k \in RandomDraws :
        /\ invoked' = Call("MockUniswap", "executeSwap", a)
        /\ IF lastEstimatedPrice = NONE
           THEN /\ lastEstimatedPrice' = estimatedPrice(a, k)
                /\ returned' = lastEstimatedPrice'
           ELSE /\ returned' = lastEstimatedPrice
                /\ UNCHANGED lastEstimatedPrice
        /\ UNCHANGED <<serviceVars, containerVars>>

(***************************************************************************)
(* validateSwapQuote, src/utils/logger.ts lines 113-146.  A JS value is    *)
(* modelled by its kind; a quote is [kind, issues], its issues are         *)
(* [kind, balance, allowance, simulationIncomplete].                       *)
(***************************************************************************)
Truthy(kind) == kind \in {"object", "true"}

NoIssues(kind) ==
    [kind |-> kind, balance |-> "undefined", allowance |-> "undefined",
     simulationIncomplete |-> "undefined"]
IssueSets ==
    {NoIssues("undefined"), NoIssues("null")}
        \cup [kind : {"object"},
              balance : {"undefined", "null", "object"},
              allowance : {"undefined", "null", "object"},
              simulationIncomplete : {"undefined", "false", "true"}]
SwapQuotes ==
    {[kind |-> "undefined", issues |-> NoIssues("undefined")],
     [kind |-> "null", issues |-> NoIssues("undefined")]}
        \cup [kind : {"object"}, issues : IssueSets]

\* swapQuote.issues?.field
issueOf(swapQuote, field) ==
    IF swapQuote.issues.kind \in {"undefined", "null"}
    THEN "undefined"
    ELSE swapQuote.issues[field]

\* a validation that treats an incomplete simulation as an issue
validateSwapQuote_SimulationInvalid(swapQuote) ==
    IF ~Truthy(swapQuote.kind)
    THEN TRUE
    ELSE /\ ~Truthy(issueOf(swapQuote, "balance"))
         /\ ~Truthy(issueOf(swapQuote, "allowance"))
         /\ ~Truthy(issueOf(swapQuote, "simulationIncomplete"))

validateSwapQuote(swapQuote) ==
    IF ~Truthy(swapQuote.kind)
    THEN TRUE
    ELSE /\ ~Truthy(issueOf(swapQuote, "balance"))
         /\ ~Truthy(issueOf(swapQuote, "allowance"))

ValidateSwapQuote ==
    \E q \in SwapQuotes :
        /\ invoked' = Call("SwapUtils", "validateSwapQuote", q)
        /\ returned' = validateSwapQuote(q)
        /\ UNCHANGED lastEstimatedPrice
        /\ UNCHANGED <<serviceVars, containerVars>>

(***************************************************************************)
(* TokenUtils, part_007 lines 32-97.  TOKENS is a plain object literal:    *)
(* a property read or an `in` test that finds no own key goes on to the    *)
(* members every object inherits.                                          *)
(***************************************************************************)
Symbols ==
    {MAIN_TOKEN_SYMBOL, SECONDARY_TOKEN_SYMBOL, "UNKNOWN", "BTC", "", "usdc",
     "weth", "Usdc", "toString", "constructor"}

ownKeys == {MAIN_TOKEN_SYMBOL, SECONDARY_TOKEN_SYMBOL}
inheritedKeys == {"toString", "constructor", "valueOf", "hasOwnProperty"}

TOKENS ==
    [symbol \in ownKeys |->
        IF symbol = MAIN_TOKEN_SYMBOL
        THEN [address |-> MAIN_TOKEN_ADDRESS, symbol |-> MAIN_TOKEN_SYMBOL,
              decimals |-> MAIN_TOKEN_DECIMALS]
        ELSE [address |-> SECONDARY_TOKEN_ADDRESS, symbol |-> SECONDARY_TOKEN_SYMBOL,
              decimals |-> SECONDARY_TOKEN_DECIMALS]]

\* an inherited member (a function), by what its TokenInfo fields read as
inheritedMember == [address |-> "undefined", symbol |-> "undefined", decimals |-> NONE]

\* `symbol in TOKENS`, and whether TOKENS[symbol] is truthy
in(symbol) == symbol \in ownKeys \cup inheritedKeys

\* TOKENS[symbol], where it is truthy
lookup(symbol) == IF symbol \in ownKeys THEN TOKENS[symbol] ELSE inheritedMember

Returns(value) == [threw |-> FALSE, value |-> value]
NotFound == [threw |-> TRUE, value |-> "not found"]

getDecimals(symbol) ==
    IF ~in(symbol) THEN NotFound ELSE Returns(lookup(symbol).decimals)
getTokenInfo(symbol) ==
    IF ~in(symbol) THEN NotFound ELSE Returns(lookup(symbol))
getAddress(symbol) ==
    IF ~in(symbol) THEN NotFound ELSE Returns(lookup(symbol).address)
exists(symbol) == Returns(in(symbol))

\* a call of a TokenUtils method: what is observed of it
called(op, symbol, result) ==
    /\ invoked' = Call("TokenUtils", op, symbol)
    /\ returned' = result

GetDecimals ==
    /\ \E symbol \in Symbols : called("getDecimals", symbol, getDecimals(symbol))
    /\ UNCHANGED lastEstimatedPrice
    /\ UNCHANGED <<serviceVars, containerVars>>
GetTokenInfo ==
    /\ \E symbol \in Symbols : called("getTokenInfo", symbol, getTokenInfo(symbol))
    /\ UNCHANGED lastEstimatedPrice
    /\ UNCHANGED <<serviceVars, containerVars>>
GetAddress ==
    /\ \E symbol \in Symbols : called("getAddress", symbol, getAddress(symbol))
    /\ UNCHANGED lastEstimatedPrice
    /\ UNCHANGED <<serviceVars, containerVars>>
Exists ==
    /\ \E symbol \in Symbols : called("exists", symbol, exists(symbol))
    /\ UNCHANGED lastEstimatedPrice
    /\ UNCHANGED <<serviceVars, containerVars>>

UtilityNext ==
    \/ MockCDPEstimatePrice
    \/ MockCDPExecuteSwap
    \/ MockUniswapEstimatePrice
    \/ MockUniswapExecuteSwap
    \/ ValidateSwapQuote
    \/ GetDecimals
    \/ GetTokenInfo
    \/ GetAddress
    \/ Exists

UtilitySpec == Init /\ [][UtilityNext]_vars

(***************************************************************************)
(* C23. estimatePrice of either mock venue returns 0 for amountIn = 0 and, *)
(* for every amountIn > 0, a value strictly greater than amountIn and      *)
(* within [amountIn*101/100, amountIn*105/100] (integer division).         *)
(* Violated for small amounts: the product is rounded to the nearest       *)
(* integer, which may be amountIn itself or lie above the upper bound.     *)
(***************************************************************************)
C23_MockEstimateWithinBand ==
    invoked.op = "estimatePrice"
        => IF invoked.arg = 0
           THEN returned = 0
           ELSE /\ returned > invoked.arg
                /\ returned >= (invoked.arg * 101) \div 100
                /\ returned <= (invoked.arg * 105) \div 100

(***************************************************************************)
(* C24. On either mock venue, executeSwap(amountIn) called right after     *)
(* estimatePrice(amountIn) returns exactly what that estimate returned.    *)
(* Violated by MockCDPProvider, whose executeSwap draws a new random       *)
(* factor.                                                                 *)
(***************************************************************************)
C24_MockSwapReturnsTheEstimate ==
    [][(/\ invoked.op = "estimatePrice"
        /\ invoked'.op = "executeSwap"
        /\ invoked'.on = invoked.on
        /\ invoked'.arg = invoked.arg) => returned' = returned]_vars

(***************************************************************************)
(* C25. validateSwapQuote returns false exactly when the quote carries a   *)
(* balance issue or an allowance issue; a quote that is undefined or null, *)
(* has no issues object, has null issues, or has only simulationIncomplete *)
(* set is valid.                                                           *)
(***************************************************************************)
carries(swapQuote, issue) ==
    /\ swapQuote.kind = "object"
    /\ swapQuote.issues.kind = "object"
    /\ swapQuote.issues[issue] = "object"

C25_InvalidExactlyOnBalanceOrAllowance ==
    invoked.op = "validateSwapQuote"
        => /\ returned = FALSE
                <=> (carries(invoked.arg, "balance") \/ carries(invoked.arg, "allowance"))
           /\ invoked.arg.kind \in {"undefined", "null"} => returned = TRUE
           /\ invoked.arg.issues.kind \in {"undefined", "null"} => returned = TRUE
           /\ invoked.arg.issues = [NoIssues("object") EXCEPT
                                        !.simulationIncomplete = "true"]
                => returned = TRUE

C25_Witness ==
    /\ invoked.op = "validateSwapQuote"
    /\ invoked.arg.kind = "object"
    /\ invoked.arg.issues = [NoIssues("object") EXCEPT !.simulationIncomplete = "true"]
    /\ returned = TRUE

(***************************************************************************)
(* C26. getDecimals, getTokenInfo and getAddress fail with a not-found     *)
(* error for every symbol other than the two configured ones and return    *)
(* the configured values for those; exists never throws and returns true   *)
(* exactly for the two configured symbols (case-sensitively).  Violated    *)
(* for the names every object inherits, such as "toString".                *)
(***************************************************************************)
configured(symbol) == symbol \in {MAIN_TOKEN_SYMBOL, SECONDARY_TOKEN_SYMBOL}

C26_UnknownSymbolsAreNotFound ==
    invoked.on = "TokenUtils"
        => /\ invoked.op = "exists"
                => (~returned.threw /\ returned.value = configured(invoked.arg))
           /\ invoked.op # "exists" => (returned.threw <=> ~configured(invoked.arg))
           /\ (invoked.op = "getDecimals" /\ invoked.arg = MAIN_TOKEN_SYMBOL)
                => returned = Returns(MAIN_TOKEN_DECIMALS)
           /\ (invoked.op = "getAddress" /\ invoked.arg = SECONDARY_TOKEN_SYMBOL)
                => returned = Returns(SECONDARY_TOKEN_ADDRESS)

(***************************************************************************)
(* C27. While a cycle that found the target reached is waiting for         *)
(* buyContent, before its stop(), no timer tick starts a new cycle.        *)
(* Violated: the cycle awaits the payment with the timer still armed.      *)
(***************************************************************************)
C27_NoTickWhilePaymentPending ==
    [][Tick => ~\E c \in InFlight : c.pc = "awaitBuyContent"]_vars

(***************************************************************************)
(* C28. A cycle in which an executeSwap call raised has aborted as a       *)
(* whole: when it ends it has emitted no opportunity report and has not    *)
(* entered target-reached handling.  Violated: executeTrade catches the    *)
(* error itself and the cycle carries on.                                  *)
(***************************************************************************)
SwapRaised(c) ==
    \E i \in CallsOf(c, "logError") : c.log[i][2] = "Error executing trade"

C28_SwapErrorAbortsCycle ==
    (finished.pc = "done" /\ SwapRaised(finished))
        => /\ CallsOf(finished, "logTradeOpportunity") = {}
           /\ CallsOf(finished, "logTargetReached") = {}

(***************************************************************************)
(* C29. When venue A's swap returned a value and venue B's executeSwap     *)
(* returns NONE, the step leaves txCount and sessionProfit unchanged and   *)
(* reports "Second swap failed"; from then on that cycle makes no further  *)
(* venue call: it has asked each venue for one estimate and one swap, so   *)
(* the first swap is neither retried nor reversed.                         *)
(***************************************************************************)
C29_SecondSwapNoneAbortsTrade ==
    [][\A d \in SteppedTo :
          (d.actualOutput = NONE)
            => /\ ~(d.actualWeth \in {UNASSIGNED, NONE, 0})
               /\ Cardinality(CallsOf(d, "estimatePrice")) = 2
               /\ Cardinality(VenueCalls(d, "executeSwap", "cdp")) = 1
               /\ Cardinality(VenueCalls(d, "executeSwap", "dex")) = 1
               /\ \E i \in CallsOf(d, "logError") : d.log[i][2] = "Second swap failed"
               /\ d.pc = "tradeReturned" => UNCHANGED <<txCount, sessionProfit>>]_vars

C29_Witness ==
    /\ txCount >= 1
    /\ \E c \in InFlight :
          /\ c.pc = "tradeReturned"
          /\ c.actualWeth = WethQuote - 1
          /\ c.actualOutput = NONE

(***************************************************************************)
(* C30. The events of one cycle are ordered: venue A's estimate, venue B's *)
(* estimate, venue A's swap, venue B's swap, the counter mutation (logged  *)
(* as trade success in the same synchronous block), the opportunity        *)
(* report, and target-reached handling.  Each event that occurs comes      *)
(* after all the earlier ones that occur, and a swap, a counter mutation   *)
(* and a target-reached handling occur only after their prerequisites.     *)
(***************************************************************************)
Precede(c, earlier, later) == \A i \in earlier, j \in later : i < j

C30_CycleEventsOrdered ==
    \A c \in Observed :
        LET estimateA == VenueCalls(c, "estimatePrice", "cdp")
            estimateB == VenueCalls(c, "estimatePrice", "dex")
            swapA == VenueCalls(c, "executeSwap", "cdp")
            swapB == VenueCalls(c, "executeSwap", "dex")
            mutation == CallsOf(c, "logTradeSuccess")
            report == CallsOf(c, "logTradeOpportunity")
            target == CallsOf(c, "logTargetReached")
        IN  /\ Precede(c, estimateA, estimateB)
            /\ Precede(c, estimateA \cup estimateB, swapA \cup swapB)
            /\ Precede(c, swapA, swapB)
            /\ Precede(c, swapA \cup swapB, mutation)
            /\ Precede(c, swapA \cup swapB \cup mutation, report)
            /\ Precede(c, mutation \cup report, target)
            /\ estimateB # {} => estimateA # {}
            /\ swapA # {} => estimateB # {}
            /\ swapB # {} => swapA # {}
            /\ mutation # {} => swapB # {}
            /\ report # {} => estimateB # {}
            /\ target # {} => report # {}

C30_Witness ==
    /\ finished.pc = "done"
    /\ CallsOf(finished, "logTradeSuccess") # {}
    /\ CallsOf(finished, "logTradeOpportunity") # {}
    /\ CallsOf(finished, "logTargetReached") # {}

(***************************************************************************)
(* C31. buyContent is invoked only in a step in which a cycle whose two    *)
(* estimates both succeeded makes its target check and finds sessionProfit *)
(* at or above the target (in decimal units of the main token); the call   *)
(* carries the configured URL.  The check is made by cycles that traded    *)
(* and by cycles that did not.                                             *)
(***************************************************************************)
C31_PaymentOnlyAtTarget ==
    [][buyerCalls' # buyerCalls
        => /\ buyerCalls' = Append(buyerCalls, paymentUrl)
           /\ BaseUnits(sessionProfit') >= balanceOut
           /\ \E d \in SteppedTo :
                 /\ d.pc = "awaitBuyContent"
                 /\ ~(d.wethFromCDP \in {UNASSIGNED, NONE, 0})
                 /\ Estimated(d)
                 /\ CallsOf(d, "buyContent") # {}]_vars

\* a cycle that pays without having attempted a trade
C31_Witness ==
    \E c \in InFlight :
        /\ c.pc = "awaitBuyContent"
        /\ SwapCalls(c) = {}
        /\ BaseUnits(sessionProfit) >= balanceOut

(***************************************************************************)
(* C32. stop() does not cancel a cycle in flight: it leaves the cycles as  *)
(* they are, a cycle in flight can always take its next step whether the   *)
(* service is running or not, and a trade whose second swap returns a      *)
(* value while isRunning is false is counted like any other.               *)
(***************************************************************************)
CycleSteps ==
    \/ EstimateASettles
    \/ EstimateBSettles
    \/ SwapASettles
    \/ SwapBSettles
    \/ TradeResumes
    \/ BuyContentSettles

C32_StopLeavesCyclesRunning ==
    /\ [](cycles # EmptyBag => ENABLED CycleSteps)
    /\ [][/\ Stop => cycles' = cycles
          /\ (~getStats.isRunning /\ \E d \in BagToSet(cycles') : TradeCompleted(d))
                => /\ getStats'.txCount = getStats.txCount + 1
                   /\ getStats'.sessionProfit # getStats.sessionProfit
                   /\ ~getStats'.isRunning]_vars

\* a trade counted after an explicit stop()
C32_Witness ==
    /\ ~getStats.isRunning
    /\ timers = {}
    /\ buyerCalls = <<>>
    /\ getStats.txCount >= 1
    /\ \E c \in InFlight :
          /\ c.pc = "tradeReturned"
          /\ c.actualOutput = amountIn + balanceOut \div 2

(***************************************************************************)
(* C33. The service is Idle (this.loop undefined) or Running (this.loop is *)
(* the handle of an armed timer), and a step that takes it out of Running  *)
(* or disarms a timer is either a stop() call or the end of a cycle's      *)
(* target-reached handling; a failed estimate, a failed or throwing swap   *)
(* and the error reports that follow leave the timers alone.               *)
(***************************************************************************)
C33_LeavesRunningOnlyByStopOrTarget ==
    /\ [](isRunning => loop \in timers)
    /\ [][((isRunning /\ ~isRunning') \/ ~(timers \subseteq timers'))
            => \/ Stop
               \/ /\ finished'.pc = "done"
                  /\ CallsOf(finished', "logTargetReached") # {}
                  /\ CallsOf(finished', "stop") # {}]_vars

\* still running after a cycle in which a swap raised
C33_Witness ==
    /\ isRunning
    /\ finished.pc = "done"
    /\ SwapRaised(finished)
    /\ CallsOf(finished, "logTargetReached") = {}

(***************************************************************************)
(* C34. In every cycle venue A's estimatePrice and executeSwap are called  *)
(* with the configured amountIn and the pair (main, secondary); venue B's  *)
(* estimatePrice is called with the amount venue A's estimate returned and *)
(* venue B's executeSwap with the amount venue A's executeSwap returned,   *)
(* both with the pair (secondary, main).                                   *)
(***************************************************************************)
CalledWith(c, i, amount, tokenIn, tokenOut) ==
    /\ c.log[i][3] = amount
    /\ c.log[i][4] = tokenIn
    /\ c.log[i][5] = tokenOut

C34_VenueCallArguments ==
    \A c \in Observed :
        /\ \A i \in VenueCalls(c, "estimatePrice", "cdp") \cup VenueCalls(c, "executeSwap", "cdp") :
              CalledWith(c, i, amountIn, MAIN_TOKEN_ADDRESS, SECONDARY_TOKEN_ADDRESS)
        /\ \A i \in VenueCalls(c, "estimatePrice", "dex") :
              CalledWith(c, i, c.wethFromCDP, SECONDARY_TOKEN_ADDRESS, MAIN_TOKEN_ADDRESS)
        /\ \A i \in VenueCalls(c, "executeSwap", "dex") :
              CalledWith(c, i, c.actualWeth, SECONDARY_TOKEN_ADDRESS, MAIN_TOKEN_ADDRESS)
        /\ VenueCalls(c, "estimatePrice", "dex") # {} => ~(c.wethFromCDP \in {UNASSIGNED, NONE, 0})
        /\ VenueCalls(c, "executeSwap", "dex") # {} => ~(c.actualWeth \in {UNASSIGNED, NONE, 0})

\* venue B is asked to swap an amount that differs from the estimate
C34_Witness ==
    \E c \in InFlight :
        /\ c.pc = "awaitSwapB"
        /\ c.wethFromCDP = WethQuote
        /\ c.actualWeth = WethQuote - 1
        /\ \E i \in VenueCalls(c, "executeSwap", "dex") : c.log[i][3] = WethQuote - 1

(***************************************************************************)
(* C35. A cycle emits at most one opportunity report, and exactly one by   *)
(* the time it has passed its execution attempt when both its estimates    *)
(* succeeded, whether it did not trade, traded, or failed to trade.  The   *)
(* report carries amountIn, the estimated amount out, the estimated net    *)
(* profit and the execute decision, and, in the step that emits it, the    *)
(* transaction count and session profit as they then stand.                *)
(***************************************************************************)
Reports(c) == CallsOf(c, "logTradeOpportunity")
BothEstimated(c) == ~(c.wethFromCDP \in {UNASSIGNED, NONE, 0}) /\ Estimated(c)
PastExecution(c) == c.pc \in {"done", "awaitBuyContent"}
\* c has just made its report: it has not yet gone through the payment
JustReported(c) ==
    /\ PastExecution(c)
    /\ Reports(c) # {}
    /\ CallsOf(c, "stop") = {}

C35_OneOpportunityReport ==
    [][\A d \in SteppedTo :
          /\ Cardinality(Reports(d)) <= 1
          /\ (PastExecution(d) /\ BothEstimated(d)) => Cardinality(Reports(d)) = 1
          /\ Reports(d) # {} => BothEstimated(d)
          /\ \A i \in Reports(d) :
                /\ d.log[i][2] = amountIn
                /\ d.log[i][3] = d.usdcFromDEX
                /\ d.log[i][4] = d.usdcFromDEX - amountIn
                /\ d.log[i][5] = (d.usdcFromDEX - amountIn >= profitThresholdAmount)
                /\ JustReported(d) => /\ d.log[i][6] = txCount'
                                      /\ d.log[i][7] = sessionProfit']_vars

\* a report after a trade whose actual output differs from the estimate
C35_Witness ==
    /\ finished.pc = "done"
    /\ Cardinality(Reports(finished)) = 1
    /\ CallsOf(finished, "logTradeSuccess") # {}
    /\ finished.actualOutput # finished.usdcFromDEX
    /\ \E i \in Reports(finished) :
          /\ finished.log[i][3] = finished.usdcFromDEX
          /\ finished.log[i][6] = txCount

(***************************************************************************)
(* C36                                                                     *)
(***************************************************************************)
\* the realized profits of a bag of trades, added up in base units of the
\* main token
RECURSIVE realizedProfit(_)
realizedProfit(done) ==
    IF done = EmptyBag
    THEN 0
    ELSE LET out == CHOOSE r \in BagToSet(done) : TRUE
         IN  (out - amountIn) + realizedProfit(done (-) SetToBag({out}))

\* C36: in every reachable state txCount is the number of trades so far in
\* which both executeSwap calls returned a nonzero amount, and sessionProfit
\* is the sum over exactly those trades of (venue B's actual output -
\* amountIn), whatever the sign of each term
C36_CountersAreTheTradeHistory ==
    /\ txCount = BagCardinality(trades)
    /\ BaseUnits(sessionProfit) = realizedProfit(trades)
    /\ sessionProfit = formatUnitsNumber(realizedProfit(trades), MAIN_TOKEN_DECIMALS)

\* a trade that lost money has been counted next to one that made money
C36_Witness ==
    /\ \E r \in BagToSet(trades) : r < amountIn
    /\ \E r \in BagToSet(trades) : r > amountIn
    /\ txCount = 2
    /\ BaseUnits(sessionProfit) = realizedProfit(trades)

(***************************************************************************)
(* C37: a venue result of exactly zero base units is handled as NONE is: a *)
(* zero estimate from either venue ends the cycle as an estimation         *)
(* failure, and a zero amount from either executeSwap ends the trade as a  *)
(* failed swap with the counters unchanged, so a venue whose executeSwap   *)
(* always returns 0 never produces a counted trade.                        *)
(***************************************************************************)
\* UniswapProvider.executeSwap: what it returns when neither writeContract
\* rejects
UniswapExecuteSwapReturn == 0

noAmount(v) == v \in {NONE, 0}

\* the last thing the cycle did was to report this error
EndedWith(d, message) ==
    /\ d.log[Len(d.log)][1] = "logError"
    /\ d.log[Len(d.log)][2] = message

C37_ZeroHandledAsNone ==
    [][\A d \in SteppedTo :
          /\ noAmount(d.wethFromCDP) =>
                /\ d.pc = "done"
                /\ EndedWith(d, "Failed to get WETH price from CDP")
                /\ VenueCalls(d, "estimatePrice", "dex") = {}
                /\ SwapCalls(d) = {}
                /\ UNCHANGED <<txCount, sessionProfit, loop, timers, buyerCalls>>
          /\ noAmount(d.usdcFromDEX) =>
                /\ d.pc = "done"
                /\ EndedWith(d, "Failed to get USDC price from DEX")
                /\ SwapCalls(d) = {}
                /\ UNCHANGED <<txCount, sessionProfit, loop, timers, buyerCalls>>
          /\ (d.pc = "tradeReturned" /\ noAmount(d.actualWeth)) =>
                /\ EndedWith(d, "First swap failed")
                /\ VenueCalls(d, "executeSwap", "dex") = {}
                /\ CallsOf(d, "logTradeSuccess") = {}
                /\ UNCHANGED <<txCount, sessionProfit>>
          /\ (d.pc = "tradeReturned" /\ noAmount(d.actualOutput)) =>
                /\ EndedWith(d, "Second swap failed")
                /\ CallsOf(d, "logTradeSuccess") = {}
                /\ UNCHANGED <<txCount, sessionProfit>>]_vars

\* venue B's executeSwap returned what UniswapProvider.executeSwap returns:
\* the trade ended as a failed swap and nothing has been counted
C37_Witness ==
    /\ \E c \in InFlight :
          /\ c.pc = "tradeReturned"
          /\ c.actualOutput = UniswapExecuteSwapReturn
          /\ EndedWith(c, "Second swap failed")
    /\ txCount = 0

(***************************************************************************)
(* Container (the dependency injection container), model of lines 93-132.  *)
(* An instance is told apart by who made it, for which key, and a serial:  *)
(* the factory's n-th build makes four new instances of serial n.          *)
(***************************************************************************)
\* the object literal of lines 105-110: one factory call per key
build(n) == [k \in Keys |-> [by |-> "factory", key |-> k, id |-> n]]

\* what a caller may pass to override for key k
Implementations(k) ==
    {[by |-> "caller", key |-> k, id |-> i] : i \in 1..MaxImplementations}

\* getDependencies(), lines 103-113: this.dependencies after the call
getDependencies ==
    IF dependencies = NoDependencies THEN build(built + 1) ELSE dependencies
\* the builds made up to the end of the call
builtAfterCall == IF dependencies = NoDependencies THEN built + 1 ELSE built

\* a getDependencies() that asks the factory on every call
GetDependencies_AlwaysBuilds ==
    /\ built < MaxBuilds
    /\ dependencies' = build(built + 1)
    /\ built' = built + 1
    /\ invoked' = Call("Container", "getDependencies", NONE)
    /\ returned' = dependencies'
    /\ UNCHANGED <<resets, lastEstimatedPrice>>
    /\ UNCHANGED serviceVars

GetDependencies ==
    /\ builtAfterCall <= MaxBuilds
    /\ dependencies' = getDependencies
    /\ built' = builtAfterCall
    /\ invoked' = Call("Container", "getDependencies", NONE)
    /\ returned' = dependencies'
    /\ UNCHANGED <<resets, lastEstimatedPrice>>
    /\ UNCHANGED serviceVars

\* reset(), lines 118-120
Reset ==
    /\ resets < MaxResets
    /\ dependencies' = NoDependencies
    /\ resets' = resets + 1
    /\ invoked' = Call("Container", "reset", NONE)
    /\ returned' = NONE
    /\ UNCHANGED <<built, lastEstimatedPrice>>
    /\ UNCHANGED serviceVars

\* override(key, implementation), lines 125-130
Override ==
    /\ builtAfterCall <= MaxBuilds
    /\ \E k \in Keys : \E implementation \in Implementations(k) :
          /\ dependencies' = [getDependencies EXCEPT ![k] = implementation]
          /\ invoked' = Call("Container", "override", implementation)
    /\ built' = builtAfterCall
    /\ returned' = NONE
    /\ UNCHANGED <<resets, lastEstimatedPrice>>
    /\ UNCHANGED serviceVars

ContainerNext ==
    \/ GetDependencies
    \/ Reset
    \/ Override

ContainerSpec == Init /\ [][ContainerNext]_vars

(***************************************************************************)
(* C38: Container.getDependencies() builds the dependency set at most once *)
(* per reset: repeated calls return the same provider, buyer and wallet    *)
(* instances until reset() is called, after which the next call builds     *)
(* fresh ones; override(key, impl) replaces only that one dependency       *)
(* (building the others first if none exist) and later getDependencies()   *)
(* calls return the overridden instance.                                   *)
(***************************************************************************)
\* an instance no earlier build has made
fresh(k) == [by |-> "factory", key |-> k, id |-> built + 1]
\* the container holds a dependency set
holdsDependencies == \E k \in Keys : dependencies[k] # NoInstance

C38_BuiltOncePerReset ==
    /\ built <= resets + 1
    /\ [][LET call == invoked'
          IN  /\ call.op = "getDependencies" =>
                    /\ returned' = dependencies'
                    /\ IF holdsDependencies
                       THEN UNCHANGED <<dependencies, built>>
                       ELSE /\ \A k \in Keys : dependencies'[k] = fresh(k)
                            /\ built' = built + 1
              /\ call.op = "override" =>
                    /\ dependencies'[call.arg.key] = call.arg
                    /\ \A k \in Keys \ {call.arg.key} :
                          dependencies'[k] =
                              IF holdsDependencies THEN dependencies[k] ELSE fresh(k)
                    /\ built' = IF holdsDependencies THEN built ELSE built + 1
              /\ call.op = "reset" => ~holdsDependencies' /\ built' = built
              /\ (holdsDependencies /\ ~holdsDependencies') => call.op = "reset"]_vars

\* after a reset and a second build, a dependency was overridden and
\* getDependencies() returned it next to the three of the second build
C38_Witness ==
    /\ invoked.on = "Container"
    /\ invoked.op = "getDependencies"
    /\ resets = 1
    /\ built = 2
    /\ returned = dependencies
    /\ returned["buyer"].by = "caller"
    /\ \A k \in Keys \ {"buyer"} : returned[k] = [by |-> "factory", key |-> k, id |-> 2]

====
